---- MODULE Spec2Model ----
(***************************************************************************)
(* Model of bugzilla/_authfiles.py: host extraction from a URL, default    *)
(* file locations, bugzillarc section matching, the token cache, the       *)
(* cookie cache and the saving of an API key.                              *)
(*                                                                         *)
(* A Python str is a sequence of one-character strings.  Python's None is  *)
(* the empty tuple and any other optional value v is the 1-tuple <<v>>.    *)
(***************************************************************************)
EXTENDS Integers, Sequences, FiniteSets, TLC

VARIABLES
    \* _BugzillaRCFile
    rc_disk,      \* the bugzillarc file on disk: section name -> dict of its items
    rc_cfg,       \* self._cfg: section name -> dict of its items
    rc_call,      \* the url of the last call when it was parse(url), else None
    rc_urlhost,   \* parse(): local urlhost
    rc_section,   \* parse(): local section when the loop is left
    rc_ret,       \* parse(): returned dict
    \* _BugzillaTokenCache and its backing file
    tc_cfg,       \* self._cfg: None, or <<section name -> token option>>
    tc_filename,  \* self._filename
    tc_file,      \* content of the token file on disk, None when missing
    tc_call,      \* the last call made on the cache
    tc_repeat,    \* that call repeats the call before it, arguments included
    tc_domain,    \* _get_domain(): the section addressed by the last call
    tc_ret,       \* value the last call returned
    tc_raised,    \* the last call raised
    tc_wrote,     \* the last call rewrote the token file
    \* filesystem seen by _default_location
    fs_home,      \* filenames f for which ~/.f exists
    fs_xdg,       \* <<kind, f>> for which ~/.kind/python-bugzilla/f exists
    fs_dirs,      \* kind -> modes of ~/.kind and ~/.kind/python-bugzilla
    loc_call,     \* arguments of the last _default_location call
    loc_pre,      \* filesystem when that call started
    loc_ret,      \* path it returned
    loc_raised,   \* it raised
    \* _BugzillaCookieCache objects and the cookie files
    cc_jar,       \* store -> self._cookiejar: None, or <<[filename, cookies]>>
    cc_files,     \* path -> None when missing, else <<[content, mode, origin]>>
    cc_pc,        \* position of the running set_filename in _build_cookiejar
    cc_call,      \* the last call made on a store
    cc_raised,    \* the last call raised
    \* _save_api_key and the bugzillarc files it is given
    ak_files,     \* path -> text of the file, None when missing
    ak_call,      \* arguments of the last _save_api_key call
    ak_dest,      \* the path it reported as written, None when it raised
    ak_raised     \* it raised

rc_vars  == <<rc_disk, rc_cfg, rc_call, rc_urlhost, rc_section, rc_ret>>
tc_vars  == <<tc_cfg, tc_filename, tc_file, tc_call, tc_repeat, tc_domain,
              tc_ret, tc_raised, tc_wrote>>
loc_vars == <<fs_home, fs_xdg, fs_dirs, loc_call, loc_pre, loc_ret, loc_raised>>
cc_vars  == <<cc_jar, cc_files, cc_pc, cc_call, cc_raised>>
ak_vars  == <<ak_files, ak_call, ak_dest, ak_raised>>
vars     == <<rc_vars, tc_vars, loc_vars, cc_vars, ak_vars>>

None    == <<>>
Some(v) == <<v>>

-----------------------------------------------------------------------------
(* Bounds *)

\* longest url body (the part after an optional "http://")
MaxUrlLen == 2
\* most sections a loaded bugzillarc holds
MaxSections == 2
\* most cookies one set_cookies call is given
MaxCookies == 2

-----------------------------------------------------------------------------
(* Strings *)

HostChars == {"a", "b"}
UrlChars  == HostChars \cup {"/", ":"}

\* code points, the order Python compares str by
Code(c) == CASE c = "/" -> 47
             [] c = ":" -> 58
             [] c = "?" -> 63
             [] c = "#" -> 35
             [] c = "a" -> 97
             [] c = "b" -> 98
             [] c = "h" -> 104
             [] c = "p" -> 112
             [] c = "t" -> 116

RECURSIVE SeqsUpTo(_, _)
SeqsUpTo(chars, n) ==
    IF n = 0 THEN {<<>>}
    ELSE LET shorter == SeqsUpTo(chars, n - 1)
         IN  shorter \cup {Append(s, c) : s \in shorter, c \in chars}

\* str.__lt__
RECURSIVE StrLess(_, _)
StrLess(s, t) ==
    IF t = <<>> THEN FALSE
    ELSE IF s = <<>> THEN TRUE
    ELSE IF Head(s) # Head(t) THEN Code(Head(s)) < Code(Head(t))
    ELSE StrLess(Tail(s), Tail(t))

\* sub in s
Contains(s, sub) ==
    \E i \in 0..(Len(s) - Len(sub)) : SubSeq(s, i + 1, i + Len(sub)) = sub

\* s.find(c) for the characters of cs, 1-based; Len(s) + 1 when none occurs
FirstOf(s, cs) ==
    IF \E i \in 1..Len(s) : s[i] \in cs
    THEN CHOOSE i \in 1..Len(s) : s[i] \in cs /\ \A j \in 1..(i - 1) : s[j] \notin cs
    ELSE Len(s) + 1

\* sorted(names)
RECURSIVE sorted(_)
sorted(names) ==
    IF names = {} THEN <<>>
    ELSE LET least == CHOOSE n \in names : \A m \in names \ {n} : StrLess(n, m)
         IN  <<least>> \o sorted(names \ {least})

-----------------------------------------------------------------------------
(* urlparse and _parse_hostname *)

SchemeChars == {"a", "b", "h", "p", "t"}

\* urlsplit: a leading run of scheme characters followed by ":" is the scheme
SplitScheme(url) ==
    LET i == FirstOf(url, {":"})
    IN  IF i > 1 /\ i <= Len(url) /\ \A k \in 1..(i - 1) : url[k] \in SchemeChars
        THEN [scheme |-> SubSeq(url, 1, i - 1), rest |-> SubSeq(url, i + 1, Len(url))]
        ELSE [scheme |-> <<>>, rest |-> url]

\* urlsplit: after the scheme, "//" opens the netloc, which runs to the next
\* "/", "?" or "#"; the path is what follows, cut at "?" or "#"
urlparse(url) ==
    LET s    == SplitScheme(url)
        r    == s.rest
        net  == Len(r) >= 2 /\ r[1] = "/" /\ r[2] = "/"
        r2   == IF net THEN SubSeq(r, 3, Len(r)) ELSE r
        stop == IF net THEN FirstOf(r2, {"/", "?", "#"}) ELSE 1
        r3   == SubSeq(r2, stop, Len(r2))
    IN  [scheme |-> s.scheme,
         netloc |-> IF net THEN SubSeq(r2, 1, stop - 1) ELSE <<>>,
         path   |-> SubSeq(r3, 1, FirstOf(r3, {"?", "#"}) - 1)]

\* a plausible slip: the network location alone, as in urlparse(url)[1]
ParseHostnameNetlocOnly(url) == urlparse(url).netloc

_parse_hostname(url) ==
    LET parsedbits == urlparse(url)
    IN  IF parsedbits.netloc # <<>> THEN parsedbits.netloc ELSE parsedbits.path

HttpPrefix == <<"h", "t", "t", "p", ":", "/", "/">>

UrlBodies   == SeqsUpTo(UrlChars, MaxUrlLen)
Urls        == UrlBodies \cup {HttpPrefix \o b : b \in UrlBodies}
HostStrings == SeqsUpTo(HostChars, MaxUrlLen)

-----------------------------------------------------------------------------
(* _BugzillaRCFile *)

\* section names of a bugzillarc file: hosts, and names with a "/"
SectionNames == {<<"a">>, <<"a", "b">>, <<"a", "/">>, <<"/", "a">>, <<"/", "/">>,
                 <<"b", "/">>}
\* every section holds its own api_key, here its name
ItemsOf(name) == [api_key |-> name]
EmptyDict     == <<>>

\* what a bugzillarc file may hold
RCConfigs ==
    {[n \in names |-> ItemsOf(n)] :
        names \in {ns \in SUBSET SectionNames : Cardinality(ns) <= MaxSections}}

\* a plausible slip: every section name is matched as a substring of the url
RECURSIVE ParseLoopSubstring(_, _, _)
ParseLoopSubstring(names, url, urlhost) ==
    IF names = <<>> THEN <<>>
    ELSE IF Contains(url, Head(names)) THEN Head(names)
    ELSE ParseLoopSubstring(Tail(names), url, urlhost)

\* the for loop of parse(): the first name of the sorted list that matches
RECURSIVE ParseLoop(_, _, _)
ParseLoop(names, url, urlhost) ==
    IF names = <<>> THEN <<>>
    ELSE LET sectionhost == Head(names)
             section == IF "/" \notin {sectionhost[i] : i \in 1..Len(sectionhost)}
                        THEN IF sectionhost = urlhost THEN sectionhost ELSE <<>>
                        ELSE IF Contains(url, sectionhost) THEN sectionhost ELSE <<>>
         IN  IF section # <<>> THEN section ELSE ParseLoop(Tail(names), url, urlhost)

RCFile == "bugzillarc"

\* __init__: set_configpaths(None) reads no file
RCInit ==
    /\ rc_disk \in RCConfigs
    /\ rc_cfg = EmptyDict
    /\ rc_call = None
    /\ rc_urlhost = <<>>
    /\ rc_section = <<>>
    /\ rc_ret = EmptyDict

\* set_configpaths(configpaths): self._cfg becomes what the files hold
RCSetConfigpaths ==
    /\ \E configpaths \in {<<>>, <<RCFile>>} :
           rc_cfg' = IF configpaths = <<>> THEN EmptyDict ELSE rc_disk
    /\ rc_call' = None
    /\ rc_urlhost' = <<>>
    /\ rc_section' = <<>>
    /\ rc_ret' = EmptyDict
    /\ UNCHANGED rc_disk

\* parse(url)
RCParse ==
    \E url \in Urls :
        LET urlhost == _parse_hostname(url)
            section == ParseLoop(sorted(DOMAIN rc_cfg), url, urlhost)
        IN  /\ rc_call' = Some(url)
            /\ rc_urlhost' = urlhost
            /\ rc_section' = section
            /\ rc_ret' = IF section = <<>> THEN EmptyDict ELSE rc_cfg[section]
            /\ UNCHANGED <<rc_disk, rc_cfg>>

-----------------------------------------------------------------------------
(* ConfigParser, as _BugzillaTokenCache uses it.  A parser is a record      *)
(* [defaults, sections]: the token option of [DEFAULT] and, per section,    *)
(* the section's own token option.  An empty section name addresses         *)
(* [DEFAULT], whose options every section inherits.                         *)

Tokens      == {"", "t1"}
TokenValues == {None} \cup {Some(t) : t \in Tokens}
TokenFile   == "tok"

EmptyCfg == [defaults |-> None, sections |-> <<>>]

\* cfg.sections()
Sections(cfg) == DOMAIN cfg.sections

\* cfg.add_section(name)
AddSection(cfg, name) ==
    [cfg EXCEPT !.sections =
        [s \in DOMAIN cfg.sections \cup {name} |->
            IF s \in DOMAIN cfg.sections THEN cfg.sections[s] ELSE None]]

\* cfg.has_option(section, 'token')
HasOption(cfg, section) ==
    IF section = <<>> THEN cfg.defaults # None
    ELSE IF section \notin Sections(cfg) THEN FALSE
    ELSE cfg.sections[section] # None \/ cfg.defaults # None

\* cfg.get(section, 'token'), as an option, for a section that has it
GetOption(cfg, section) ==
    IF cfg.sections[section] # None THEN cfg.sections[section] ELSE cfg.defaults

\* cfg.set(section, 'token', value) and, with None, cfg.remove_option(section, 'token')
SetOption(cfg, section, value) ==
    IF section = <<>> THEN [cfg EXCEPT !.defaults = value]
    ELSE [cfg EXCEPT !.sections[section] = value]

\* The text of a token file is a sequence of lines: the "[DEFAULT]" header, a
\* "[name]" header, or "token = value".
DefaultLine      == [kind |-> "default", name |-> <<>>, value |-> ""]
HeaderLine(name) == [kind |-> "section", name |-> name, value |-> ""]
TokenLine(value) == [kind |-> "token", name |-> <<>>, value |-> value]

\* cfg.write(f), the sections: a header line each, then its own option
RECURSIVE SectionLines(_, _)
SectionLines(cfg, names) ==
    IF names = <<>> THEN <<>>
    ELSE LET own == cfg.sections[Head(names)]
         IN  <<HeaderLine(Head(names))>>
                 \o (IF own # None THEN <<TokenLine(own[1])>> ELSE <<>>)
                 \o SectionLines(cfg, Tail(names))

\* cfg.write(f): [DEFAULT] when it has options, then every section (the
\* sections are listed in sorted order here; their order carries no meaning)
WriteCfg(cfg) ==
    (IF cfg.defaults # None THEN <<DefaultLine, TokenLine(cfg.defaults[1])>> ELSE <<>>)
        \o SectionLines(cfg, sorted(Sections(cfg)))

\* cfg.read(filename) fails on a "[]" header line
ReadFails(text) ==
    \E i \in 1..Len(text) : text[i].kind = "section" /\ text[i].name = <<>>

\* cfg.read(filename), line by line: a header opens a section, an option line
\* belongs to the section opened last (<<>> stands for [DEFAULT])
RECURSIVE ReadLines(_, _, _)
ReadLines(lines, cursect, cfg) ==
    IF lines = <<>> THEN cfg
    ELSE LET line == Head(lines)
         IN  IF line.kind = "default" THEN ReadLines(Tail(lines), <<>>, cfg)
             ELSE IF line.kind = "section"
             THEN ReadLines(Tail(lines), line.name,
                            IF line.name \in Sections(cfg) THEN cfg
                            ELSE AddSection(cfg, line.name))
             ELSE ReadLines(Tail(lines), cursect,
                            SetOption(cfg, cursect, Some(line.value)))

\* cfg.read(filename) into a new parser
ReadCfg(text) == ReadLines(text, <<>>, EmptyCfg)

-----------------------------------------------------------------------------
(* _BugzillaTokenCache *)

TCUrls == {<<"a">>, HttpPrefix \o <<"a">>, HttpPrefix \o <<"b">>}

Call(op, url, value) == [op |-> op, url |-> url, value |-> value]
NoCall == Call("none", <<>>, None)

\* _get_domain(url): the section name
GetDomain(url) == urlparse(url).netloc

\* _get_domain(url): the parser once the section exists
WithDomain(cfg, url) ==
    IF GetDomain(url) \notin Sections(cfg) THEN AddSection(cfg, GetDomain(url)) ELSE cfg

\* get_value(url): the value returned, on the parser _get_domain left
GetValue(cfg, url) ==
    IF HasOption(cfg, GetDomain(url)) THEN GetOption(cfg, GetDomain(url)) ELSE None

\* __init__, with no token file on disk yet
TCInit ==
    /\ tc_cfg = None
    /\ tc_filename = None
    /\ tc_file = None
    /\ tc_call = NoCall
    /\ tc_repeat = FALSE
    /\ tc_domain = <<>>
    /\ tc_ret = None
    /\ tc_raised = FALSE
    /\ tc_wrote = FALSE

\* what a call leaves behind when it raises before changing the object
TCRaise(call) ==
    /\ tc_call' = call
    /\ tc_repeat' = (tc_call = call)
    /\ tc_raised' = TRUE
    /\ tc_wrote' = FALSE
    /\ tc_domain' = <<>>
    /\ tc_ret' = None
    /\ UNCHANGED <<tc_cfg, tc_filename, tc_file>>

\* set_filename(filename)
TCSetFilename ==
    \E filename \in {None, Some(TokenFile)} :
        LET call == Call("set_filename", <<>>, filename)
            read == filename # None /\ tc_file # None
        IN  IF read /\ ReadFails(tc_file[1])
            THEN TCRaise(call)
            ELSE LET cfg == IF read THEN ReadCfg(tc_file[1]) ELSE EmptyCfg
                 IN  /\ tc_cfg' = Some(cfg)
                     /\ tc_filename' = filename
                     /\ tc_call' = call
                     /\ tc_repeat' = (tc_call = call)
                     /\ tc_raised' = FALSE
                     /\ tc_wrote' = FALSE
                     /\ tc_domain' = <<>>
                     /\ tc_ret' = None
                     /\ UNCHANGED tc_file

\* a plausible slip: get_value saves the parser it has just touched
TCGetValueSaving ==
    \E url \in TCUrls :
        LET call == Call("get_value", url, None)
        IN  IF tc_cfg = None
            THEN TCRaise(call)
            ELSE LET cfg == WithDomain(tc_cfg[1], url)
                 IN  /\ tc_cfg' = Some(cfg)
                     /\ tc_domain' = GetDomain(url)
                     /\ tc_ret' = GetValue(cfg, url)
                     /\ tc_call' = call
                     /\ tc_repeat' = (tc_call = call)
                     /\ tc_raised' = FALSE
                     /\ tc_wrote' = (tc_filename # None)
                     /\ tc_file' = IF tc_filename # None THEN Some(WriteCfg(cfg))
                                   ELSE tc_file
                     /\ UNCHANGED tc_filename

\* get_value(url)
TCGetValue ==
    \E url \in TCUrls :
        LET call == Call("get_value", url, None)
        IN  IF tc_cfg = None
            THEN TCRaise(call)   \* self._cfg.sections() on None
            ELSE LET cfg == WithDomain(tc_cfg[1], url)
                 IN  /\ tc_cfg' = Some(cfg)
                     /\ tc_domain' = GetDomain(url)
                     /\ tc_ret' = GetValue(cfg, url)
                     /\ tc_call' = call
                     /\ tc_repeat' = (tc_call = call)
                     /\ tc_raised' = FALSE
                     /\ tc_wrote' = FALSE
                     /\ UNCHANGED <<tc_filename, tc_file>>

\* set_value(url, value)
TCSetValue ==
    \E url \in TCUrls, value \in TokenValues :
        LET call == Call("set_value", url, value)
        IN  IF tc_cfg = None
            THEN TCRaise(call)   \* get_value(url) raises
            ELSE LET cfg     == WithDomain(tc_cfg[1], url)
                     same    == GetValue(cfg, url) = value
                     changed == SetOption(cfg, GetDomain(url), value)
                     save    == ~same /\ tc_filename # None
                 IN  /\ tc_cfg' = Some(IF same THEN cfg ELSE changed)
                     /\ tc_file' = IF save THEN Some(WriteCfg(changed)) ELSE tc_file
                     /\ tc_wrote' = save
                     /\ tc_domain' = GetDomain(url)
                     /\ tc_call' = call
                     /\ tc_repeat' = (tc_call = call)
                     /\ tc_raised' = FALSE
                     /\ tc_ret' = None
                     /\ UNCHANGED tc_filename

-----------------------------------------------------------------------------
(* _default_location and the filesystem under the home directory *)

Kinds      == {"cache", "config"}
CacheFiles == {"bugzillatoken", "bugzillacookies"}
Filenames  == CacheFiles \cup {"bugzillarc"}
\* the files _default_location is asked about
Located    == {<<"cache", f>> : f \in CacheFiles} \cup {<<"config", "bugzillarc">>}

Absent    == "absent"
Mode0700  == "0o700"
ModeUmask == "umask"
DirModes  == {Mode0700, ModeUmask}

\* "~/.%s" % filename
HomePath(filename) == [style |-> "home", kind |-> "", filename |-> filename]
\* "~/.%s/python-bugzilla/%s" % (kind, filename)
XdgPath(kind, filename) == [style |-> "xdg", kind |-> kind, filename |-> filename]

\* os.makedirs(os.path.dirname(xdgpath), 0o700): missing parents get the default
\* mode, the last directory 0o700; an existing last directory is an error
Makedirs(dirs, kind) ==
    IF dirs[kind].leaf # Absent
    THEN [raised |-> TRUE, dirs |-> dirs]
    ELSE [raised |-> FALSE,
          dirs   |-> [dirs EXCEPT ![kind] =
                        [parent |-> IF @.parent = Absent THEN ModeUmask ELSE @.parent,
                         leaf   |-> Mode0700]]]

\* a plausible slip: the old-style home path is looked at first
DefaultLocationHomeFirst(home, xdg, dirs, filename, kind) ==
    IF filename \in home
    THEN [ret |-> Some(HomePath(filename)), raised |-> FALSE, dirs |-> dirs]
    ELSE IF <<kind, filename>> \in xdg
    THEN [ret |-> Some(XdgPath(kind, filename)), raised |-> FALSE, dirs |-> dirs]
    ELSE IF dirs[kind].leaf = Absent
    THEN LET md == Makedirs(dirs, kind)
         IN  [ret |-> Some(XdgPath(kind, filename)), raised |-> FALSE, dirs |-> md.dirs]
    ELSE [ret |-> Some(XdgPath(kind, filename)), raised |-> FALSE, dirs |-> dirs]

\* a plausible slip: makedirs without looking whether the directory exists
DefaultLocationAlwaysMakedirs(home, xdg, dirs, filename, kind) ==
    IF <<kind, filename>> \in xdg
    THEN [ret |-> Some(XdgPath(kind, filename)), raised |-> FALSE, dirs |-> dirs]
    ELSE IF filename \in home
    THEN [ret |-> Some(HomePath(filename)), raised |-> FALSE, dirs |-> dirs]
    ELSE LET md == Makedirs(dirs, kind)
         IN  [ret    |-> IF md.raised THEN None ELSE Some(XdgPath(kind, filename)),
              raised |-> md.raised,
              dirs   |-> md.dirs]

\* _default_location(filename, kind) on a filesystem: the path returned, whether
\* it raised, and the directories afterwards
_default_location(home, xdg, dirs, filename, kind) ==
    IF <<kind, filename>> \in xdg
    THEN [ret |-> Some(XdgPath(kind, filename)), raised |-> FALSE, dirs |-> dirs]
    ELSE IF filename \in home
    THEN [ret |-> Some(HomePath(filename)), raised |-> FALSE, dirs |-> dirs]
    ELSE IF dirs[kind].leaf = Absent
    THEN LET md == Makedirs(dirs, kind)
         IN  [ret    |-> IF md.raised THEN None ELSE Some(XdgPath(kind, filename)),
              raised |-> md.raised,
              dirs   |-> md.dirs]
    ELSE [ret |-> Some(XdgPath(kind, filename)), raised |-> FALSE, dirs |-> dirs]

\* directory states: ~/.kind/python-bugzilla exists only inside ~/.kind
DirStates ==
    {d \in [parent : DirModes \cup {Absent}, leaf : DirModes \cup {Absent}] :
        d.parent = Absent => d.leaf = Absent}

NoFs == [home |-> {}, xdg |-> {}, dirs |-> [k \in Kinds |-> [parent |-> Absent, leaf |-> Absent]]]
NoLocCall == [filename |-> "", kind |-> ""]

\* any filesystem a home directory can be in: a file exists only in a directory
LocInit ==
    /\ fs_home \in SUBSET Filenames
    /\ fs_dirs \in [Kinds -> DirStates]
    /\ fs_xdg \in SUBSET {x \in Located : fs_dirs[x[1]].leaf # Absent}
    /\ loc_call = NoLocCall
    /\ loc_pre = NoFs
    /\ loc_ret = None
    /\ loc_raised = FALSE

LocCall(filename, kind) ==
    LET r == _default_location(fs_home, fs_xdg, fs_dirs, filename, kind)
    IN  /\ loc_call' = [filename |-> filename, kind |-> kind]
        /\ loc_pre' = [home |-> fs_home, xdg |-> fs_xdg, dirs |-> fs_dirs]
        /\ loc_ret' = r.ret
        /\ loc_raised' = r.raised
        /\ fs_dirs' = r.dirs
        /\ UNCHANGED <<fs_home, fs_xdg>>

\* _BugzillaTokenCache.get_default_path()
TCGetDefaultPath == LocCall("bugzillatoken", "cache")

\* _BugzillaCookieCache.get_default_path()
CCGetDefaultPath == LocCall("bugzillacookies", "cache")

\* _default_config_location('bugzillarc')
DefaultConfigLocation == LocCall("bugzillarc", "config")

-----------------------------------------------------------------------------
(* MozillaCookieJar and the cookie files *)

Stores      == {1, 2}
CookiePaths == {"cj1", "cj2"}
Mode0600    == "0o600"
FileModes   == {Mode0600, ModeUmask}

\* a cookie: discard marks a session cookie, one without an expiry date
Cookie(domain, name, value, discard) ==
    [domain |-> domain, path |-> "/", name |-> name, value |-> value,
     discard |-> discard]

Cookies == {Cookie("x.com", "sid", "1", TRUE),
            Cookie("x.com", "sid", "2", FALSE),
            Cookie("y.com", "sid", "1", FALSE)}

\* the identity set_cookie replaces by
CookieKey(c) == <<c.domain, c.path, c.name>>

\* cj.set_cookie(cookie)
SetCookie(jar, cookie) ==
    {c \in jar : CookieKey(c) # CookieKey(cookie)} \cup {cookie}

\* for cookie in cookies: cj.set_cookie(cookie)
RECURSIVE SetCookieAll(_, _)
SetCookieAll(jar, cookies) ==
    IF cookies = <<>> THEN jar
    ELSE SetCookieAll(SetCookie(jar, Head(cookies)), Tail(cookies))

\* a line of a cookie file: the cookie's fields and its expiry date
CookieLine(c) ==
    [domain |-> c.domain, path |-> c.path, name |-> c.name, value |-> c.value,
     expires |-> "date"]

\* the text of a file: whether it opens with the cookie-file magic line, its
\* cookie lines, and whether it holds a line that is no cookie line
Text(magic, lines, junk) == [magic |-> magic, lines |-> lines, junk |-> junk]
EmptyText   == Text(FALSE, {}, FALSE)
GarbageText == Text(FALSE, {}, TRUE)
HalfText    == Text(TRUE, {CookieLine(Cookie("y.com", "sid", "1", FALSE))}, TRUE)

\* cj.save(): the magic line, then a line per cookie that is kept beyond the
\* session (ignore_discard is left at False)
SaveJar(jar) == Text(TRUE, {CookieLine(c) : c \in {d \in jar : ~d.discard}}, FALSE)

\* cj.load() raises LoadError: no magic line, or a line that does not parse
LoadFails(text) == ~text.magic \/ text.junk

\* cj.load(): a cookie per line, none of them a session cookie
LoadJar(text) ==
    {Cookie(l.domain, l.name, l.value, FALSE) : l \in text.lines}

\* MozillaCookieJar(cookiefile) with its cookies
Jar(filename, cookies) == [filename |-> filename, cookies |-> cookies]

File(content, mode, origin) == [content |-> content, mode |-> mode, origin |-> origin]

\* a plausible slip: a file that does not load is replaced by an empty jar
BuildCookiejarOverwrites(files, cookiefile) ==
    IF cookiefile = None
    THEN [cj |-> Some(Jar(None, {})), raised |-> FALSE, files |-> files, pc |-> "idle"]
    ELSE IF files[cookiefile[1]] = None
    THEN [cj |-> None, raised |-> FALSE, pc |-> "opened",
          files |-> [files EXCEPT ![cookiefile[1]] =
                        Some(File(EmptyText, ModeUmask, "created"))]]
    ELSE IF LoadFails(files[cookiefile[1]][1].content)
    THEN [cj |-> None, raised |-> TRUE, pc |-> "idle",
          files |-> [files EXCEPT ![cookiefile[1]] =
                        Some([@[1] EXCEPT !.content = SaveJar({})])]]
    ELSE [cj |-> Some(Jar(cookiefile, LoadJar(files[cookiefile[1]][1].content))),
          raised |-> FALSE, files |-> files, pc |-> "idle"]

\* _build_cookiejar(cookiefile) up to its first write or its return: the jar
\* returned (None while the new file is being set up), whether it raised,
\* the files afterwards, and where it stands
_build_cookiejar(files, cookiefile) ==
    IF cookiefile = None
    THEN [cj |-> Some(Jar(None, {})), raised |-> FALSE, files |-> files, pc |-> "idle"]
    ELSE IF files[cookiefile[1]] = None
    THEN [cj |-> None, raised |-> FALSE, pc |-> "opened",
          files |-> [files EXCEPT ![cookiefile[1]] =
                        Some(File(EmptyText, ModeUmask, "created"))]]
    ELSE IF LoadFails(files[cookiefile[1]][1].content)
    THEN [cj |-> None, raised |-> TRUE, files |-> files, pc |-> "idle"]
    ELSE [cj |-> Some(Jar(cookiefile, LoadJar(files[cookiefile[1]][1].content))),
          raised |-> FALSE, files |-> files, pc |-> "idle"]

CookieCall(store, op, cookiefile) == [store |-> store, op |-> op, cookiefile |-> cookiefile]
NoCookieCall == CookieCall(0, "none", None)

\* cookie files found on disk: garbled ones and saved jars, of either mode
FoundFiles ==
    {None} \cup
    {Some(File(t, m, "found")) :
        t \in {GarbageText, HalfText, SaveJar({}), SaveJar(Cookies)},
        m \in FileModes}

\* garbled files among them, as the second path holds when it holds any
FoundGarbled == {f \in FoundFiles : f # None /\ LoadFails(f[1].content)}

\* __init__ of every store
CCInit ==
    /\ cc_jar = [s \in Stores |-> None]
    /\ cc_files \in [CookiePaths -> FoundFiles]
    /\ cc_files["cj2"] \in {None} \cup FoundGarbled
    /\ cc_pc = "idle"
    /\ cc_call = NoCookieCall
    /\ cc_raised = FALSE

\* a plausible slip: self._cookiejar is reset before the file is loaded
CCSetFilenameDropsJar ==
    /\ cc_pc = "idle"
    /\ \E s \in Stores, cookiefile \in {None} \cup {Some(p) : p \in CookiePaths} :
          \E r \in {_build_cookiejar(cc_files, cookiefile)} :
              /\ cc_call' = CookieCall(s, "set_filename", cookiefile)
              /\ cc_raised' = r.raised
              /\ cc_files' = r.files
              /\ cc_pc' = r.pc
              /\ cc_jar' = IF r.cj = None
                           THEN [cc_jar EXCEPT ![s] = IF r.raised THEN None ELSE @]
                           ELSE [cc_jar EXCEPT ![s] = r.cj]

\* set_filename(cookiefile), up to the first write of _build_cookiejar for
\* a new file
CCSetFilename ==
    /\ cc_pc = "idle"
    /\ \E s \in Stores, cookiefile \in {None} \cup {Some(p) : p \in CookiePaths} :
          \E r \in {_build_cookiejar(cc_files, cookiefile)} :
              /\ cc_call' = CookieCall(s, "set_filename", cookiefile)
              /\ cc_raised' = r.raised
              /\ cc_files' = r.files
              /\ cc_pc' = r.pc
              /\ cc_jar' = IF r.cj = None THEN cc_jar
                           ELSE [cc_jar EXCEPT ![s] = r.cj]

\* a plausible slip: the new file keeps the mode it was opened with
CCChmodSkipped ==
    /\ cc_pc = "opened"
    /\ cc_pc' = "chmodded"
    /\ UNCHANGED <<cc_files, cc_jar, cc_call, cc_raised>>

\* _build_cookiejar, new file: os.chmod(cookiefile, 0o600)
CCChmod ==
    /\ cc_pc = "opened"
    /\ cc_pc' = "chmodded"
    /\ cc_files' = [cc_files EXCEPT ![cc_call.cookiefile[1]] =
                        Some([@[1] EXCEPT !.mode = Mode0600])]
    /\ UNCHANGED <<cc_jar, cc_call, cc_raised>>

\* _build_cookiejar, new file: cj.save(), return cj, and the assignment to
\* self._cookiejar
CCSaveNew ==
    /\ cc_pc = "chmodded"
    /\ cc_pc' = "idle"
    /\ cc_files' = [cc_files EXCEPT ![cc_call.cookiefile[1]] =
                        Some([@[1] EXCEPT !.content = SaveJar({})])]
    /\ cc_jar' = [cc_jar EXCEPT ![cc_call.store] = Some(Jar(cc_call.cookiefile, {}))]
    /\ UNCHANGED <<cc_call, cc_raised>>

\* set_cookies(cookies)
CCSetCookies ==
    /\ cc_pc = "idle"
    /\ \E s \in Stores, cookies \in SeqsUpTo(Cookies, MaxCookies) :
          /\ cc_call' = CookieCall(s, "set_cookies", None)
          /\ cc_raised' = FALSE
          /\ cc_pc' = "idle"
          /\ IF cc_jar[s] = None
             THEN UNCHANGED <<cc_jar, cc_files>>
             ELSE LET cj == Jar(cc_jar[s][1].filename,
                               SetCookieAll(cc_jar[s][1].cookies, cookies))
                  IN  /\ cc_jar' = [cc_jar EXCEPT ![s] = Some(cj)]
                      /\ cc_files' =
                            IF cj.filename = None THEN cc_files
                            ELSE [cc_files EXCEPT ![cj.filename[1]] =
                                    Some([@[1] EXCEPT !.content = SaveJar(cj.cookies)])]

-----------------------------------------------------------------------------
(* _save_api_key, the bugzillarc files as text, and loading a list of them *)

\* paths a caller passes in configpaths
GivenPath(filename) == [style |-> "given", kind |-> "", filename |-> filename]
P1 == GivenPath("rc1")
P2 == GivenPath("rc2")
KeyPaths == {P1, P2, HomePath("bugzillarc"), XdgPath("config", "bugzillarc")}

Whitespace == {" ", "\n"}

\* str.strip()
RECURSIVE LStrip(_)
LStrip(s) == IF s # <<>> /\ Head(s) \in Whitespace THEN LStrip(Tail(s)) ELSE s

RECURSIVE RStrip(_)
RStrip(s) ==
    IF s # <<>> /\ s[Len(s)] \in Whitespace THEN RStrip(SubSeq(s, 1, Len(s) - 1)) ELSE s

Strip(s) == RStrip(LStrip(s))

\* The text of a bugzillarc file is a sequence of lines: a comment, a
\* "[name]" header, "key = value", or a line that is none of these.
CommentLine        == [kind |-> "comment", name |-> <<>>, key |-> "", value |-> <<>>]
GarbageLine        == [kind |-> "garbage", name |-> <<>>, key |-> "", value |-> <<>>]
SectionLine(name)  == [kind |-> "section", name |-> name, key |-> "", value |-> <<>>]
OptionLine(key, v) == [kind |-> "option", name |-> <<>>, key |-> key, value |-> v]

\* ConfigParser.optionxform: option names are lower-cased
OptionXForm(key) == IF key = "API_KEY" THEN "api_key" ELSE key

\* the options a section is written with, in this order
OptionOrder == <<"api_key", "user">>

\* cfg.add_section(section) on a parser section name -> dict
AddRCSection(cfg, section) ==
    [n \in DOMAIN cfg \cup {section} |-> IF n \in DOMAIN cfg THEN cfg[n] ELSE EmptyDict]

\* cfg.set(section, key, value)
SetRCOption(cfg, section, key, value) ==
    [cfg EXCEPT ![section] =
        [k \in DOMAIN cfg[section] \cup {key} |-> IF k = key THEN value ELSE cfg[section][k]]]

\* cfg.read(filename) raises: a line that is neither comment, header nor option
RCReadFails(text) == \E i \in 1..Len(text) : text[i].kind = "garbage"

\* cfg.read(filename) into the parser cfg, line by line: comments are
\* skipped, option names lower-cased, values stripped
RECURSIVE RCReadLines(_, _, _)
RCReadLines(lines, cursect, cfg) ==
    IF lines = <<>> THEN cfg
    ELSE LET line == Head(lines)
         IN  IF line.kind = "section"
             THEN RCReadLines(Tail(lines), line.name,
                              IF line.name \in DOMAIN cfg THEN cfg
                              ELSE AddRCSection(cfg, line.name))
             ELSE IF line.kind = "option"
             THEN RCReadLines(Tail(lines), cursect,
                              SetRCOption(cfg, cursect, OptionXForm(line.key),
                                          Strip(line.value)))
             ELSE RCReadLines(Tail(lines), cursect, cfg)

\* cfg.write(f), the options of one section
RECURSIVE OptionLines(_, _)
OptionLines(items, keys) ==
    IF keys = <<>> THEN <<>>
    ELSE (IF Head(keys) \in DOMAIN items
          THEN <<OptionLine(Head(keys), items[Head(keys)])>> ELSE <<>>)
             \o OptionLines(items, Tail(keys))

\* cfg.write(f), one section: its header, then its options
WriteSection(cfg, name) == <<SectionLine(name)>> \o OptionLines(cfg[name], OptionOrder)

\* cfg.write(f): every section (listed in sorted order here; the order
\* carries no meaning)
RECURSIVE WriteSections(_, _)
WriteSections(cfg, names) ==
    IF names = <<>> THEN <<>>
    ELSE WriteSection(cfg, Head(names)) \o WriteSections(cfg, Tail(names))

WriteRC(cfg) == WriteSections(cfg, sorted(DOMAIN cfg))

\* cfg.read(configpaths) of set_configpaths on a new parser: the files that
\* exist are read in the order given, a later value replacing an earlier one
RECURSIVE ReadPaths(_, _, _)
ReadPaths(files, configpaths, cfg) ==
    IF configpaths = <<>> THEN cfg
    ELSE ReadPaths(files, Tail(configpaths),
                   IF files[Head(configpaths)] = None THEN cfg
                   ELSE RCReadLines(files[Head(configpaths)][1], <<>>, cfg))

\* a plausible slip: the key is set on a new parser, the file is not read
SaveApiKeyNoRead(files, home, xdg, dirs, url, api_key, configpaths) ==
    LET loc  == IF configpaths # <<>>
                THEN [ret |-> Some(configpaths[1]), raised |-> FALSE, dirs |-> dirs]
                ELSE _default_location(home, xdg, dirs, "bugzillarc", "config")
        section == _parse_hostname(url)
        cfg  == SetRCOption(AddRCSection(EmptyDict, section), section, "api_key",
                            Strip(api_key))
    IN  [raised |-> FALSE, dest |-> loc.ret, dirs |-> loc.dirs,
         files  |-> [files EXCEPT ![loc.ret[1]] = Some(WriteRC(cfg))]]

\* _save_api_key(url, api_key, configpaths) on the files and the home
\* directory: whether it raised, the path it reported, the directories and
\* the files afterwards
_save_api_key(files, home, xdg, dirs, url, api_key, configpaths) ==
    LET loc  == IF configpaths # <<>>
                THEN [ret |-> Some(configpaths[1]), raised |-> FALSE, dirs |-> dirs]
                ELSE _default_location(home, xdg, dirs, "bugzillarc", "config")
        old  == files[loc.ret[1]]
        section == _parse_hostname(url)
        read == IF old = None THEN EmptyDict ELSE RCReadLines(old[1], <<>>, EmptyDict)
        cfg  == SetRCOption(IF section \in DOMAIN read THEN read
                            ELSE AddRCSection(read, section),
                            section, "api_key", Strip(api_key))
    IN  IF old # None /\ RCReadFails(old[1])
        THEN [raised |-> TRUE, dest |-> None, dirs |-> loc.dirs, files |-> files]
        ELSE [raised |-> FALSE, dest |-> loc.ret, dirs |-> loc.dirs,
              files  |-> [files EXCEPT ![loc.ret[1]] = Some(WriteRC(cfg))]]

\* the urls, keys and path lists _save_api_key is called with
KeyUrls     == {<<"a">>, HttpPrefix \o <<"a">>, HttpPrefix \o <<"b">>}
ApiKeys     == {<<"k">>, <<" ", "k", "\n">>, <<"j">>}
ConfigPaths == {<<>>, <<P1>>, <<P1, P2>>}

KeyCall(url, api_key, configpaths) ==
    [url |-> url, api_key |-> api_key, configpaths |-> configpaths]
NoKeyCall == KeyCall(<<>>, <<>>, <<>>)

\* texts found at the first path given, at a later path, and at a default
\* location
FirstTexts ==
    {<<GarbageLine>>,
     <<CommentLine, SectionLine(<<"b">>), OptionLine("user", <<"u">>)>>,
     <<SectionLine(<<"a">>), OptionLine("API_KEY", <<"x">>), OptionLine("user", <<"u">>),
       SectionLine(<<"b">>), OptionLine("api_key", <<"x">>)>>,
     <<SectionLine(<<"/", "/">>), OptionLine("user", <<"u">>)>>}
LaterTexts   == {<<SectionLine(<<"a">>), OptionLine("api_key", <<"x">>)>>}
DefaultTexts == {<<SectionLine(<<"b">>), OptionLine("api_key", <<"x">>)>>}

\* no call yet
AKNoCall ==
    /\ ak_call = NoKeyCall
    /\ ak_dest = None
    /\ ak_raised = FALSE

\* the files before any call: a bugzillarc at a default location has a text
\* exactly when the filesystem holds it
AKInit ==
    /\ AKNoCall
    /\ ak_files \in [KeyPaths -> {None} \cup {Some(t) : t \in FirstTexts \cup LaterTexts \cup DefaultTexts}]
    /\ ak_files[P1] \in {None} \cup {Some(t) : t \in FirstTexts}
    /\ ak_files[P2] \in {None} \cup {Some(t) : t \in LaterTexts}
    /\ \A p \in {HomePath("bugzillarc"), XdgPath("config", "bugzillarc")} :
          ak_files[p] \in {None} \cup {Some(t) : t \in DefaultTexts}
    /\ fs_home = IF ak_files[HomePath("bugzillarc")] = None THEN {} ELSE {"bugzillarc"}
    /\ fs_xdg = IF ak_files[XdgPath("config", "bugzillarc")] = None THEN {}
                ELSE {<<"config", "bugzillarc">>}
    /\ fs_dirs \in [Kinds -> DirStates]
    /\ fs_dirs["cache"] = NoFs.dirs["cache"]
    /\ fs_dirs["config"].parent # ModeUmask
    /\ fs_xdg # {} => fs_dirs["config"].leaf # Absent
    /\ loc_call = NoLocCall
    /\ loc_pre = NoFs
    /\ loc_ret = None
    /\ loc_raised = FALSE

\* _save_api_key(url, api_key, configpaths)
AKSaveApiKey ==
    \E url \in KeyUrls, api_key \in ApiKeys, configpaths \in ConfigPaths :
        \E r \in {_save_api_key(ak_files, fs_home, fs_xdg, fs_dirs, url, api_key,
                                configpaths)} :
            /\ ak_call' = KeyCall(url, api_key, configpaths)
            /\ ak_raised' = r.raised
            /\ ak_dest' = r.dest
            /\ ak_files' = r.files
            /\ fs_dirs' = r.dirs
            /\ fs_xdg' = IF r.files[XdgPath("config", "bugzillarc")] = None THEN fs_xdg
                         ELSE fs_xdg \cup {<<"config", "bugzillarc">>}
            /\ IF configpaths = <<>>
               THEN /\ loc_call' = [filename |-> "bugzillarc", kind |-> "config"]
                    /\ loc_pre' = [home |-> fs_home, xdg |-> fs_xdg, dirs |-> fs_dirs]
                    /\ loc_ret' = _default_location(fs_home, fs_xdg, fs_dirs,
                                                    "bugzillarc", "config").ret
                    /\ loc_raised' = FALSE
               ELSE UNCHANGED <<loc_call, loc_pre, loc_ret, loc_raised>>
            /\ UNCHANGED fs_home

-----------------------------------------------------------------------------
(* Specifications: one per object; the other objects stay as constructed *)

RCIdle == RCInit /\ rc_disk = EmptyDict

LocIdle ==
    /\ fs_home = {}
    /\ fs_xdg = {}
    /\ fs_dirs = NoFs.dirs
    /\ loc_call = NoLocCall
    /\ loc_pre = NoFs
    /\ loc_ret = None
    /\ loc_raised = FALSE

CCIdle == CCInit /\ cc_files = [p \in CookiePaths |-> None]

\* no bugzillarc text is looked at
AKIdle == AKNoCall /\ ak_files = [p \in KeyPaths |-> None]

\* the token cache
Init == RCIdle /\ TCInit /\ LocIdle /\ CCIdle /\ AKIdle

Next ==
    \/ TCSetFilename /\ UNCHANGED <<rc_vars, loc_vars, cc_vars, ak_vars>>
    \/ TCGetValue /\ UNCHANGED <<rc_vars, loc_vars, cc_vars, ak_vars>>
    \/ TCSetValue /\ UNCHANGED <<rc_vars, loc_vars, cc_vars, ak_vars>>

Spec == Init /\ [][Next]_vars

\* bugzillarc section lookup
InitRC == RCInit /\ TCInit /\ LocIdle /\ CCIdle /\ AKIdle

NextRC ==
    \/ RCSetConfigpaths /\ UNCHANGED <<tc_vars, loc_vars, cc_vars, ak_vars>>
    \/ RCParse /\ UNCHANGED <<tc_vars, loc_vars, cc_vars, ak_vars>>

SpecRC == InitRC /\ [][NextRC]_vars

\* default locations
InitLoc == RCIdle /\ TCInit /\ LocInit /\ CCIdle /\ AKIdle

NextLoc ==
    \/ TCGetDefaultPath /\ UNCHANGED <<rc_vars, tc_vars, cc_vars, ak_vars>>
    \/ CCGetDefaultPath /\ UNCHANGED <<rc_vars, tc_vars, cc_vars, ak_vars>>
    \/ DefaultConfigLocation /\ UNCHANGED <<rc_vars, tc_vars, cc_vars, ak_vars>>

SpecLoc == InitLoc /\ [][NextLoc]_vars

\* the cookie stores and their files
InitCookie == RCIdle /\ TCInit /\ LocIdle /\ CCInit /\ AKIdle

NextCookie ==
    \/ CCSetFilename /\ UNCHANGED <<rc_vars, tc_vars, loc_vars, ak_vars>>
    \/ CCChmod /\ UNCHANGED <<rc_vars, tc_vars, loc_vars, ak_vars>>
    \/ CCSaveNew /\ UNCHANGED <<rc_vars, tc_vars, loc_vars, ak_vars>>
    \/ CCSetCookies /\ UNCHANGED <<rc_vars, tc_vars, loc_vars, ak_vars>>

SpecCookie == InitCookie /\ [][NextCookie]_vars

\* saving an API key
InitKey == RCIdle /\ TCInit /\ CCIdle /\ AKInit

NextKey == AKSaveApiKey /\ UNCHANGED <<rc_vars, tc_vars, cc_vars>>

SpecKey == InitKey /\ [][NextKey]_vars

-----------------------------------------------------------------------------
(* Claims about _BugzillaRCFile.parse and _parse_hostname, under SpecRC *)

\* a section name matches a url: a name without "/" by being the url's host,
\* a name with "/" by occurring in the url
Matches(name, url) ==
    IF \E i \in 1..Len(name) : name[i] = "/"
    THEN Contains(url, name)
    ELSE name = _parse_hostname(url)

Matching == {n \in DOMAIN rc_cfg : Matches(n, rc_call[1])}

\* C1: parse(url) selects the smallest section name, in str order, among the
\* names that match url (exactly the host for a name without "/", a substring
\* of the url for a name with "/") and returns that section's items; when no
\* name matches it returns the empty dict.
C1_ParseSelectsSmallestMatch ==
    rc_call # None =>
        IF Matching = {}
        THEN rc_section = <<>> /\ rc_ret = EmptyDict
        ELSE /\ rc_section \in Matching
             /\ \A m \in Matching \ {rc_section} : StrLess(rc_section, m)
             /\ rc_ret = rc_cfg[rc_section]

\* two sections match the url of the call and one of them was selected, while a
\* name without "/" that merely occurs in the url is not among them
C1_Witness ==
    /\ rc_call # None
    /\ Cardinality(Matching) >= 2
    /\ rc_ret = rc_cfg[rc_section]
    /\ \E n \in SectionNames : Contains(rc_call[1], n) /\ ~Matches(n, rc_call[1])

\* C2: for every host string h, the host of "http://" + h and the host of the
\* bare h are both h.
C2_BareHostSameAsHttp ==
    rc_call # None =>
        \A h \in HostStrings :
            (rc_call[1] = h \/ rc_call[1] = HttpPrefix \o h) => rc_urlhost = h

\* parse was called with a bare host name and found that name as the host
C2_Witness ==
    /\ rc_call # None
    /\ rc_call[1] \in HostStrings \ {<<>>}
    /\ rc_urlhost = rc_call[1]

-----------------------------------------------------------------------------
(* Claims about _default_location, under SpecLoc *)

LocCalled   == loc_call # NoLocCall
\* what existed when the last call started
ModernThere == <<loc_call.kind, loc_call.filename>> \in loc_pre.xdg
LegacyThere == loc_call.filename \in loc_pre.home
ModernPath  == Some(XdgPath(loc_call.kind, loc_call.filename))
LegacyPath  == Some(HomePath(loc_call.filename))

C9_OnlyNeitherBranchCreatesDir ==
    LocCalled =>
        LET k == loc_call.kind
        IN  /\ ~loc_raised
            /\ fs_home = loc_pre.home
            /\ fs_xdg = loc_pre.xdg
            /\ \A other \in Kinds \ {k} : fs_dirs[other] = loc_pre.dirs[other]
            /\ (ModernThere \/ LegacyThere) => fs_dirs = loc_pre.dirs
            /\ ~(ModernThere \/ LegacyThere) =>
                 /\ loc_ret = ModernPath
                 /\ fs_dirs[k].leaf # Absent
                 /\ IF loc_pre.dirs[k].leaf = Absent
                    THEN fs_dirs[k].leaf = Mode0700
                    ELSE fs_dirs = loc_pre.dirs

\* a call in the neither-exists state with no directory at all: both
\* directories were made, the last one with mode 0700, and no file
C9_Witness ==
    /\ LocCalled
    /\ ~ModernThere /\ ~LegacyThere
    /\ loc_pre.dirs[loc_call.kind].parent = Absent
    /\ fs_dirs[loc_call.kind] = [parent |-> ModeUmask, leaf |-> Mode0700]
    /\ fs_xdg = loc_pre.xdg
    /\ loc_ret = ModernPath

\* C10: the default token-cache and cookie-file location is the legacy home
\* path whenever the legacy file is present, the modern path only otherwise.
C10_LegacyWheneverPresent ==
    (LocCalled /\ loc_call.kind = "cache") =>
        loc_ret = IF LegacyThere THEN LegacyPath ELSE ModernPath

-----------------------------------------------------------------------------
(* Claims about _BugzillaTokenCache, under Spec *)

IsCall(op) == tc_call.op = op /\ ~tc_raised

\* what get_value(url) returns on a parser
Lookup(cfg, url) == GetValue(WithDomain(cfg, url), url)

\* C3: the cache keys its entries by the url's host identifier: a get_value
\* of the bare host name right after set_value("http://" + h, v) returns v,
\* and every call addresses the section named by the host of its url.
C3_KeyedByHostIdentifier ==
    [][/\ \A url \in TCUrls :
            (tc_call' = Call("get_value", url, None) /\ ~tc_raised')
                => tc_domain' = _parse_hostname(url)
       /\ \A url \in TCUrls, v \in TokenValues :
            (/\ tc_call = Call("set_value", HttpPrefix \o url, v) /\ ~tc_raised
             /\ tc_call' = Call("get_value", url, None))
                => tc_ret' = v]_vars

\* C4: get_value(url) returns the value of the most recent set_value for the
\* host of url, None when that was None or when there was none: a set_value
\* for host h makes every url of host h read the value set, and leaves what
\* the urls of every other host read as it was.
C4_LastSetValuePerHost ==
    [][\A url \in TCUrls, v \in TokenValues :
          (tc_call' = Call("set_value", url, v) /\ ~tc_raised' /\ tc_cfg # None)
              => \A other \in TCUrls :
                    Lookup(tc_cfg'[1], other) =
                        IF _parse_hostname(other) = _parse_hostname(url)
                        THEN v
                        ELSE Lookup(tc_cfg[1], other)]_vars

\* C5: after set_value(url, value) with an empty value, the empty string as
\* well as None, the host's section has no token: get_value(url) returns None.
\* Stated for the urls that carry their host as the network location.
C5_EmptyValueRemovesToken ==
    (/\ IsCall("set_value")
     /\ tc_call.value \in {None, Some("")}
     /\ GetDomain(tc_call.url) # <<>>)
        => Lookup(tc_cfg[1], tc_call.url) = None

\* C6: with a backing file configured, a set_value(url, v) that repeats the
\* call before it does not write the file again.
C6_RepeatedSetValueWritesOnce ==
    (IsCall("set_value") /\ tc_repeat /\ tc_filename # None) => ~tc_wrote

\* C7: as long as no backing path is configured, get_value and set_value
\* never raise and never write a file.
C7_NoPathStillServes ==
    (tc_filename = None /\ tc_call.op \in {"get_value", "set_value"})
        => (~tc_raised /\ ~tc_wrote)

\* C16: whenever a set_value with a backing file configured has changed a
\* value, the file holds the whole store: a new cache given set_filename on the
\* same path loads it and returns, for every url, what the writing cache
\* returns.
C16_FileReloadsWholeStore ==
    (IsCall("set_value") /\ tc_wrote) =>
        /\ ~ReadFails(tc_file[1])
        /\ \A url \in TCUrls :
               Lookup(ReadCfg(tc_file[1]), url) = Lookup(tc_cfg[1], url)

\* C20: get_value(url) leaves the backing file as it is and leaves what
\* get_value returns for every url as it is, also when it adds an empty section
\* to the parser; the file changes only in a set_value(url, value) whose value
\* differs from what get_value(url) returned before it.
C20_OnlyChangingSetValueWrites ==
    [][/\ (tc_call'.op = "get_value" /\ ~tc_raised') =>
            /\ tc_file' = tc_file
            /\ \A url \in TCUrls :
                   Lookup(tc_cfg'[1], url) = Lookup(tc_cfg[1], url)
       /\ tc_file' # tc_file =>
            /\ tc_call'.op = "set_value"
            /\ tc_cfg # None
            /\ Lookup(tc_cfg[1], tc_call'.url) # tc_call'.value]_vars

\* a get_value on a cache with a backing file has added a section to the
\* parser that the file does not hold
C20_Witness ==
    /\ IsCall("get_value")
    /\ tc_filename # None
    /\ tc_file # None
    /\ tc_domain \in Sections(tc_cfg[1])
    /\ tc_domain \notin Sections(ReadLines(tc_file[1], <<>>, EmptyCfg))

-----------------------------------------------------------------------------
(* Claims about _BugzillaCookieCache, under SpecCookie *)

\* a step that is a call of op on store s
CookieStep(s, op) ==
    cc_pc = "idle" /\ cc_call'.store = s /\ cc_call'.op = op

\* the store's jar is bound to the file at path p
BoundTo(s, p) == cc_jar[s] # None /\ cc_jar[s][1].filename = Some(p)

\* get_filename() of a bound store
GetFilename(s) == cc_jar[s][1].filename

\* (domain, name, value) of the cookies of a jar
Triples(jar) == {<<c.domain, c.name, c.value>> : c \in jar}

\* C11: set_filename on a file that exists and is not in cookie-file format
\* raises, and every cookie file is on disk afterwards as it was before: the
\* file is not truncated, rewritten or replaced by an empty jar.
C11_GarbledFileFailsUntouched ==
    [][\A s \in Stores, p \in CookiePaths :
          (/\ CookieStep(s, "set_filename")
           /\ cc_call'.cookiefile = Some(p)
           /\ cc_files[p] # None
           /\ LoadFails(cc_files[p][1].content))
              => (cc_raised' /\ cc_files' = cc_files)]_vars

\* set_filename has just raised on a file that opens like a cookie file,
\* holds a cookie line and a line that is none
C11_Witness ==
    /\ cc_raised
    /\ cc_call.op = "set_filename"
    /\ cc_files[cc_call.cookiefile[1]][1].content = HalfText

\* C12: set_filename on a path with no file creates the file, sets its mode
\* to 0600 and saves the empty jar, in that order: a file it created has mode
\* 0600 in every state in which it holds anything, and when the call returns
\* the file exists, holds the saved empty jar, and the store's jar is empty.
C12_NewFileModeBeforeData ==
    /\ [](\A p \in CookiePaths :
            (cc_files[p] # None /\ cc_files[p][1].origin = "created") =>
                /\ cc_files[p][1].content # EmptyText => cc_files[p][1].mode = Mode0600
                /\ (cc_pc = "chmodded" /\ cc_call.cookiefile = Some(p)) =>
                       cc_files[p][1].content = EmptyText)
    /\ [][(cc_pc # "idle" /\ cc_pc' = "idle") =>
            LET p == cc_call.cookiefile[1]
            IN  /\ cc_files'[p] # None
                /\ cc_files'[p][1].content = SaveJar({})
                /\ cc_files'[p][1].mode = Mode0600
                /\ cc_jar'[cc_call.store] = Some(Jar(Some(p), {}))]_vars

\* a file that set_filename created holds cookie lines, with mode 0600
C12_Witness ==
    \E p \in CookiePaths :
        /\ cc_files[p] # None
        /\ cc_files[p][1].origin = "created"
        /\ cc_files[p][1].content.lines # {}
        /\ cc_files[p][1].mode = Mode0600

\* C13: after set_cookies on a store bound to a file, a new store given
\* set_filename on the same file loads it and holds the same cookies, by
\* domain, name and value, as the jar of the store that wrote.
C13_CookiesReload ==
    \A s \in Stores, p \in CookiePaths :
        (cc_call = CookieCall(s, "set_cookies", None) /\ BoundTo(s, p)) =>
            LET fresh == _build_cookiejar(cc_files, Some(p))
            IN  /\ ~fresh.raised
                /\ fresh.cj # None
                /\ Triples(fresh.cj[1].cookies) = Triples(cc_jar[s][1].cookies)

\* C14: a store bound by set_filename(None) has no filename and its
\* set_cookies calls put the cookies in the jar and leave every file as it
\* is; the set_cookies calls of a store bound to a path leave the file
\* holding a line for every cookie of the jar.
C14_MemoryOnlyOrFullSave ==
    [][\A s \in Stores :
          /\ (CookieStep(s, "set_filename") /\ cc_call'.cookiefile = None) =>
                (cc_jar'[s] # None /\ cc_jar'[s][1].filename = None)
          /\ (CookieStep(s, "set_cookies") /\ cc_jar[s] # None) =>
                /\ \E cookies \in SeqsUpTo(Cookies, MaxCookies) :
                       cc_jar'[s][1].cookies = SetCookieAll(cc_jar[s][1].cookies, cookies)
                /\ IF GetFilename(s) = None
                   THEN cc_files' = cc_files
                   ELSE cc_files'[GetFilename(s)[1]][1].content.lines =
                            {CookieLine(c) : c \in cc_jar'[s][1].cookies}]_vars

\* C17: with two stores bound to the same cookie file nothing is merged:
\* after a set_cookies the file holds exactly the cookies of the jar of the
\* store that made the call, so a cookie that only the other store holds is
\* not in the file.
C17_LastWriterStoreIsFile ==
    \A s \in Stores, p \in CookiePaths :
        (cc_call = CookieCall(s, "set_cookies", None) /\ BoundTo(s, p)) =>
            \A c \in Cookies :
                CookieLine(c) \in cc_files[p][1].content.lines
                    <=> c \in cc_jar[s][1].cookies

\* C19: a set_filename that raises leaves every store's jar, bound filename
\* included, as it was: a store never bound stays unbound, and the next
\* set_cookies of a store bound to a file saves its jar to that same file.
C19_FailedRebindKeepsJar ==
    [][/\ cc_raised' => cc_jar' = cc_jar
       /\ \A s \in Stores, q \in CookiePaths :
            (/\ cc_raised /\ cc_call.store = s /\ BoundTo(s, q)
             /\ CookieStep(s, "set_cookies"))
                => /\ cc_jar'[s][1].filename = Some(q)
                   /\ cc_files'[q][1].content = SaveJar(cc_jar'[s][1].cookies)]_vars

\* set_filename has just raised on a store that is bound to another file and
\* holds cookies
C19_Witness ==
    /\ cc_raised
    /\ cc_jar[cc_call.store] # None
    /\ cc_jar[cc_call.store][1].filename \notin {None, cc_call.cookiefile}
    /\ cc_jar[cc_call.store][1].cookies # {}

-----------------------------------------------------------------------------
(* Claims about _save_api_key, under SpecKey *)

\* what a parser holds after reading the file at path p, nothing when missing
Loaded(files, p) ==
    IF files[p] = None THEN EmptyDict ELSE RCReadLines(files[p][1], <<>>, EmptyDict)

\* the api_key entry of the section of host h
IsKeyEntry(h, n, k) == n = h /\ k = "api_key"

\* C15: a _save_api_key(url, api_key, configpaths) that returns leaves every
\* other file alone and rewrites the destination so that what it loads to
\* differs from what it loaded to before only in the api_key entry of the
\* section named by the host of url: that entry is api_key stripped, also in
\* the text written, and every other section and every other key is there
\* after the call with its value exactly when it was there before.
C15_OnlyApiKeyEntryChanges ==
    [][(ak_call' # NoKeyCall /\ ~ak_raised') =>
          \E d \in {ak_dest'[1]}, h \in {_parse_hostname(ak_call'.url)} :
          \E before \in {Loaded(ak_files, d)}, after \in {Loaded(ak_files', d)} :
              /\ \A p \in KeyPaths \ {d} : ak_files'[p] = ak_files[p]
              /\ DOMAIN after = DOMAIN before \cup {h}
              /\ \A n \in DOMAIN before : \A k \in DOMAIN before[n] :
                    ~IsKeyEntry(h, n, k) =>
                        (k \in DOMAIN after[n] /\ after[n][k] = before[n][k])
              /\ \A n \in DOMAIN after : \A k \in DOMAIN after[n] :
                    ~IsKeyEntry(h, n, k) =>
                        (n \in DOMAIN before /\ k \in DOMAIN before[n])
              /\ "api_key" \in DOMAIN after[h]
              /\ after[h]["api_key"] = Strip(ak_call'.api_key)
              /\ \E i \in 1..Len(ak_files'[d][1]) :
                    ak_files'[d][1][i] = OptionLine("api_key", Strip(ak_call'.api_key))
              /\ \A i \in 1..Len(ak_files'[d][1]) :
                    ak_files'[d][1][i] # OptionLine("api_key", ak_call'.api_key)
                        \/ Strip(ak_call'.api_key) = ak_call'.api_key]_vars

\* a key given with whitespace around it has been saved into a file that
\* holds another key in the host's section and another section
C15_Witness ==
    /\ ak_call # NoKeyCall
    /\ ~ak_raised
    /\ Strip(ak_call.api_key) # ak_call.api_key
    /\ LET after == Loaded(ak_files, ak_dest[1])
           h     == _parse_hostname(ak_call.url)
       IN  /\ "user" \in DOMAIN after[h]
           /\ after[h]["api_key"] = Strip(ak_call.api_key)
           /\ DOMAIN after # {h}

\* C18: after a _save_api_key(url, key, configpaths) with a non-empty
\* configpaths has returned, a _BugzillaRCFile given set_configpaths(configpaths)
\* returns from parse(url) a dict whose api_key is key stripped.
C18_SavedKeyIsResolved ==
    (ak_call # NoKeyCall /\ ~ak_raised /\ ak_call.configpaths # <<>>) =>
        LET cfg     == ReadPaths(ak_files, ak_call.configpaths, EmptyDict)
            section == ParseLoop(sorted(DOMAIN cfg), ak_call.url,
                                 _parse_hostname(ak_call.url))
            ret     == IF section = <<>> THEN EmptyDict ELSE cfg[section]
        IN  /\ "api_key" \in DOMAIN ret
            /\ ret["api_key"] = Strip(ak_call.api_key)

====
